---- MODULE Spec2Model ----
(***************************************************************************)
(* Gallery controller of the family video archive: participant directory,  *)
(* chips, card expand/collapse with the embedded player, and the filter.   *)
(* Strings are sequences of one-character strings, so that split(','),     *)
(* trim() and localeCompare are computed character by character.           *)
(***************************************************************************)
EXTENDS Integers, Sequences, FiniteSets, TLC

VARIABLES
    pc,            \* "start": script evaluated, init() not yet run; "ready": init() done
    cards,         \* videoCards: sequence of card elements (records)
    options,       \* participantFilter's option values, in document order
    filterValue,   \* participantFilter.value
    emptyHidden,   \* emptyState.hidden
    timers,        \* pending setTimeout callbacks, oldest first (the card each will scroll)
    lastEvent      \* history: the kind of listener that ran last and the cards it collapsed

vars == <<pc, cards, options, filterValue, emptyHidden, timers, lastEvent>>

\* ------------------------------------------------------------------ bounds

MaxCards == 2         \* cards on the page (Spec)
MaxTimers == 1        \* pending scroll timers kept at once
MaxDirCards == 3      \* cards on the page (SpecDir)

\* ------------------------------------------------------------- configuration

MAX_VISIBLE_CHIPS == 4

\* ------------------------------------------------------------------ strings

EmptyStr == <<>>
Whitespace == {" "}

\* String.prototype.split(sep): the pieces between separators; "" gives [""]
\* (scan from index i, the current piece starting at index from)
RECURSIVE splitFrom(_, _, _, _, _)
splitFrom(s, sep, i, from, pieces) ==
    IF i > Len(s) THEN Append(pieces, SubSeq(s, from, Len(s)))
    ELSE IF s[i] = sep
         THEN splitFrom(s, sep, i + 1, i + 1, Append(pieces, SubSeq(s, from, i - 1)))
         ELSE splitFrom(s, sep, i + 1, from, pieces)

split(s, sep) == splitFrom(s, sep, 1, 1, <<>>)

\* String.prototype.trim(): drops leading and trailing whitespace only
RECURSIVE trimStart(_, _)
trimStart(s, i) ==
    IF i <= Len(s) /\ s[i] \in Whitespace THEN trimStart(s, i + 1) ELSE i

RECURSIVE trimEnd(_, _)
trimEnd(s, i) ==
    IF i >= 1 /\ s[i] \in Whitespace THEN trimEnd(s, i - 1) ELSE i

trim(s) == SubSeq(s, trimStart(s, 1), trimEnd(s, Len(s)))

\* Array.prototype.map(p => p.trim())
mapTrim(arr) == [i \in 1..Len(arr) |-> trim(arr[i])]

\* Array.prototype.includes
includes(arr, x) == \E i \in 1..Len(arr) : arr[i] = x

\* Primary (base letter) collation weight of a character under 'es':
\* case is not a primary difference
BaseWeight(ch) ==
    CASE ch = " " -> 0
      [] ch \in {"a", "A"} -> 1
      [] ch \in {"b", "B"} -> 2
      [] OTHER -> 3

\* a.localeCompare(b, 'es', { sensitivity: 'base' }): -1, 0 or 1
RECURSIVE localeCompare(_, _)
localeCompare(a, b) ==
    IF a = EmptyStr THEN (IF b = EmptyStr THEN 0 ELSE -1)
    ELSE IF b = EmptyStr THEN 1
    ELSE IF BaseWeight(Head(a)) < BaseWeight(Head(b)) THEN -1
    ELSE IF BaseWeight(Head(a)) > BaseWeight(Head(b)) THEN 1
    ELSE localeCompare(Tail(a), Tail(b))

\* (mutation of setAdd: a name equal under the collation counts as present)
setAdd_byCollation(set, p) ==
    IF \E i \in 1..Len(set) : localeCompare(set[i], p) = 0 THEN set ELSE Append(set, p)

\* Set.prototype.add on a Set kept in insertion order: exact string equality
setAdd(set, p) == IF includes(set, p) THEN set ELSE Append(set, p)

\* Array.prototype.sort with the collation comparator: a stable sort
\* (insertion after every element that does not compare greater)
insertSorted(arr, x) ==
    LET n == Cardinality({i \in 1..Len(arr) : localeCompare(arr[i], x) <= 0})
    IN  SubSeq(arr, 1, n) \o <<x>> \o SubSeq(arr, n + 1, Len(arr))

RECURSIVE sortInto(_, _)
sortInto(sorted, rest) ==
    IF rest = <<>> THEN sorted
    ELSE sortInto(insertSorted(sorted, Head(rest)), Tail(rest))

sortByCollation(arr) == sortInto(<<>>, arr)

\* ------------------------------------------------------------------ inputs

\* data-participants attributes of the page's cards:
\* "a"   "A,A, b ,A,A"
CardAttrs ==
    { <<"a">>,
      <<"A", ",", "A", ",", " ", "b", " ", ",", "A", ",", "A">> }

\* data-participants attributes the directory is computed from:
\* "b, A"  "a"  "A"  " a ,b"  ""  "a,"  "A,a,A"  "a b"  "b ,a b, a"  " "  "B,b"  "ab, a"
DirAttrs ==
    { <<"b", ",", " ", "A">>,
      <<"a">>,
      <<"A">>,
      <<" ", "a", " ", ",", "b">>,
      <<>>,
      <<"a", ",">>,
      <<"A", ",", "a", ",", "A">>,
      <<"a", " ", "b">>,
      <<"b", " ", ",", "a", " ", "b", ",", " ", "a">>,
      <<" ">>,
      <<"B", ",", "b">>,
      <<"a", "b", ",", " ", "a">> }

\* data-participants attributes of the cards the chip rows are checked on,
\* with 1, 2, 3, 4, 5 and 6 listed participants:
\* "a"  "a,b"  "a,b,A"  "a,b,A,B"  "a,b,A,B, a"  "b,a,B,A,b,a"
ChipAttrs ==
    { <<"a">>,
      <<"a", ",", "b">>,
      <<"a", ",", "b", ",", "A">>,
      <<"a", ",", "b", ",", "A", ",", "B">>,
      <<"a", ",", "b", ",", "A", ",", "B", ",", " ", "a">>,
      <<"b", ",", "a", ",", "B", ",", "A", ",", "b", ",", "a">> }

\* card.dataset.participants.split(',').map(p => p.trim())
splitTrim(attr) == mapTrim(split(attr, ","))

\* the same list, computed once per attribute value (the attribute never changes)
ParticipantLists ==
    [attr \in CardAttrs \cup DirAttrs \cup ChipAttrs |-> splitTrim(attr)]
participantsOf(card) == ParticipantLists[card.participants]

\* --------------------------------------------------- participant directory

\* (mutation of addAllTrimmed: the pieces are added as split leaves them)
RECURSIVE addAllTrimmed_raw(_, _)
addAllTrimmed_raw(set, pieces) ==
    IF pieces = <<>> THEN set
    ELSE addAllTrimmed_raw(setAdd(set, Head(pieces)), Tail(pieces))

\* (mutation of addAllTrimmed: the names are added in lower case)
RECURSIVE addAllTrimmed_lowerCase(_, _)
addAllTrimmed_lowerCase(set, pieces) ==
    LET lower(s) == [i \in 1..Len(s) |->
                        CASE s[i] = "A" -> "a" [] s[i] = "B" -> "b" [] OTHER -> s[i]]
    IN  IF pieces = <<>> THEN set
        ELSE addAllTrimmed_lowerCase(setAdd(set, lower(trim(Head(pieces)))),
                                     Tail(pieces))

\* participants.forEach(p => participantsSet.add(p.trim()))
RECURSIVE addAllTrimmed(_, _)
addAllTrimmed(set, pieces) ==
    IF pieces = <<>> THEN set
    ELSE addAllTrimmed(setAdd(set, trim(Head(pieces))), Tail(pieces))

\* collectParticipants(): over the cards in document order
RECURSIVE collectInto(_, _)
collectInto(participantsSet, cs) ==
    IF cs = <<>> THEN participantsSet
    ELSE collectInto(addAllTrimmed(participantsSet, split(Head(cs).participants, ",")),
                     Tail(cs))

collectParticipants(cs) == sortByCollation(collectInto(<<>>, cs))

\* populateFilterDropdown(): one option appended per participant, in order
populateFilterDropdown(opts, cs) == opts \o collectParticipants(cs)

\* ------------------------------------------------------------------ chips

\* label of the expand control: "+N mas" or "Ver menos"
LabelMore(n) == [kind |-> "more", count |-> n]
LabelLess == [kind |-> "less", count |-> 0]
NoExpandBtn == [present |-> FALSE, ariaExpanded |-> FALSE, label |-> LabelLess]

\* (mutation of generateChips: the new chips are appended to the chips the
\* container already holds)
generateChips_appends(card) ==
    LET participants == participantsOf(card)
        totalCount == Len(participants)
    IN  [card EXCEPT
            !.chips = @ \o [i \in 1..totalCount |->
                          [text |-> participants[i],
                           hidden |-> (i - 1 >= MAX_VISIBLE_CHIPS),
                           visible |-> FALSE,
                           highlighted |-> FALSE]],
            !.expandBtn = IF totalCount > MAX_VISIBLE_CHIPS
                          THEN [present |-> TRUE, ariaExpanded |-> FALSE,
                                label |-> LabelMore(totalCount - MAX_VISIBLE_CHIPS)]
                          ELSE NoExpandBtn]

\* generateChips(card)
generateChips(card) ==
    LET participants == participantsOf(card)
        totalCount == Len(participants)
    IN  [card EXCEPT
            !.chips = [i \in 1..totalCount |->
                          [text |-> participants[i],
                           hidden |-> (i - 1 >= MAX_VISIBLE_CHIPS),
                           visible |-> FALSE,
                           highlighted |-> FALSE]],
            !.expandBtn = IF totalCount > MAX_VISIBLE_CHIPS
                          THEN [present |-> TRUE, ariaExpanded |-> FALSE,
                                label |-> LabelMore(totalCount - MAX_VISIBLE_CHIPS)]
                          ELSE NoExpandBtn]

\* (mutation of toggleChips: collapsing hides from the last visible chip on)
toggleChips_hidesFromCap(card) ==
    LET isExpanded == card.expandBtn.ariaExpanded
        participants == participantsOf(card)
        hiddenCount == Len(participants) - MAX_VISIBLE_CHIPS
    IN  IF isExpanded
        THEN [card EXCEPT
                !.expandBtn = [present |-> TRUE, ariaExpanded |-> FALSE,
                               label |-> LabelMore(hiddenCount)],
                !.chips = [i \in 1..Len(card.chips) |->
                              IF i >= MAX_VISIBLE_CHIPS
                              THEN [card.chips[i] EXCEPT !.visible = FALSE, !.hidden = TRUE]
                              ELSE card.chips[i]]]
        ELSE [card EXCEPT
                !.expandBtn = [present |-> TRUE, ariaExpanded |-> TRUE,
                               label |-> LabelLess],
                !.chips = [i \in 1..Len(card.chips) |->
                              IF i > MAX_VISIBLE_CHIPS
                              THEN [card.chips[i] EXCEPT !.hidden = FALSE, !.visible = TRUE]
                              ELSE card.chips[i]]]

\* toggleChips(card, expandBtn)
toggleChips(card) ==
    LET isExpanded == card.expandBtn.ariaExpanded
        participants == participantsOf(card)
        hiddenCount == Len(participants) - MAX_VISIBLE_CHIPS
    IN  IF isExpanded
        THEN [card EXCEPT
                !.expandBtn = [present |-> TRUE, ariaExpanded |-> FALSE,
                               label |-> LabelMore(hiddenCount)],
                !.chips = [i \in 1..Len(card.chips) |->
                              IF i > MAX_VISIBLE_CHIPS
                              THEN [card.chips[i] EXCEPT !.visible = FALSE, !.hidden = TRUE]
                              ELSE card.chips[i]]]
        ELSE [card EXCEPT
                !.expandBtn = [present |-> TRUE, ariaExpanded |-> TRUE,
                               label |-> LabelLess],
                !.chips = [i \in 1..Len(card.chips) |->
                              IF i > MAX_VISIBLE_CHIPS
                              THEN [card.chips[i] EXCEPT !.hidden = FALSE, !.visible = TRUE]
                              ELSE card.chips[i]]]

\* ------------------------------------------------------------------ markup

\* card.dataset.videoId of a card without the data-video-id attribute: the
\* value undefined, a token that is no string of characters
Undefined == <<"undefined">>

\* the video identifier the page's cards carry
VideoId == <<"v">>

\* A card element as the static markup gives it: collapsed, shown; chipList
\* is what the markup holds in the chips container
MarkupCardWith(attr, id, chipList) ==
    [participants |-> attr,
     videoId |-> id,
     ariaExpanded |-> FALSE,
     embedHidden |-> TRUE,
     dataExpanded |-> FALSE,
     iframes |-> <<>>,
     loading |-> FALSE,
     hidden |-> FALSE,
     chips |-> chipList,
     expandBtn |-> NoExpandBtn]

MarkupCard(attr) == MarkupCardWith(attr, VideoId, <<>>)

\* the filter control's own option: "all participants", value ''
StaticOptions == <<EmptyStr>>

\* history record of a listener run: the cards it took from expanded to
\* collapsed and the cards it took from hidden to shown
\* (card: the card a fired scroll timer scrolled into view, else 0)
Event(name, before, after) ==
    [op |-> name,
     collapsed |-> {c \in 1..Len(before) : before[c].ariaExpanded /\ ~after[c].ariaExpanded},
     shown |-> {c \in 1..Len(before) : before[c].hidden /\ ~after[c].hidden},
     card |-> 0]

NoEvent == [op |-> "other", collapsed |-> {}, shown |-> {}, card |-> 0]

SeqsUpTo(S, n) == UNION {[1..k -> S] : k \in 0..n}

\* init(): chips for every card, then the dropdown. It runs at once or on
\* DOMContentLoaded, before the page takes user events.
init ==
    /\ pc = "start"
    /\ pc' = "ready"
    /\ cards' = [i \in 1..Len(cards) |-> generateChips(cards[i])]
    /\ options' = populateFilterDropdown(options, cards')
    /\ lastEvent' = [NoEvent EXCEPT !.op = "init"]
    /\ UNCHANGED <<filterValue, emptyHidden, timers>>

\* the page when the script is evaluated: every card collapsed and shown,
\* the placeholder hidden, the filter control on its own '' option
InitPage(markup, maxCards) ==
    /\ pc = "start"
    /\ cards \in SeqsUpTo(markup, maxCards)
    /\ options = StaticOptions
    /\ filterValue = EmptyStr
    /\ emptyHidden = TRUE
    /\ timers = <<>>
    /\ lastEvent = NoEvent

\* ------------------------------------------- directory specification (SpecDir)

InitDir == InitPage({MarkupCard(attr) : attr \in DirAttrs}, MaxDirCards)
NextDir == init
SpecDir == InitDir /\ [][NextDir]_vars

\* ------------------------------------------------- card expand / collapse

\* `${videoId}`: the string conversion a template literal applies; the value
\* undefined converts to the text "undefined", it raises nothing
templateText(value) ==
    IF value = Undefined THEN <<"u", "n", "d", "e", "f", "i", "n", "e", "d">>
    ELSE value

\* the iframe's src: prefix, the converted identifier, query string
embedUrl(videoId) ==
    <<"https://www.youtube-nocookie.com/embed/">> \o templateText(videoId)
        \o <<"?rel=0&modestbranding=1&autoplay=1&enablejsapi=0">>

\* (mutation of loadYouTubeEmbed: a card without video identifier gets no
\* loading marker and no iframe)
loadYouTubeEmbed_guarded(card) ==
    LET videoId == card.videoId
        iframe == [src |-> embedUrl(videoId), loaded |-> FALSE]
    IN IF videoId = Undefined THEN card
       ELSE [card EXCEPT !.loading = TRUE,
                         !.iframes = Append(@, iframe)]

\* loadYouTubeEmbed(card): loading marker on, a fresh iframe appended whose
\* load event has not fired
loadYouTubeEmbed(card) ==
    LET videoId == card.videoId
        iframe == [src |-> embedUrl(videoId), loaded |-> FALSE]
    IN [card EXCEPT !.loading = TRUE,
                    !.iframes = Append(@, iframe)]

\* (mutation of collapseSelf: the loading marker is removed with the iframe)
collapseSelf_clearsLoading(card) ==
    [card EXCEPT !.ariaExpanded = FALSE,
                 !.embedHidden = TRUE,
                 !.dataExpanded = FALSE,
                 !.loading = FALSE,
                 !.iframes = IF @ # <<>> THEN Tail(@) ELSE @]

\* toggleVideoCard, collapse branch: the card itself
collapseSelf(card) ==
    [card EXCEPT !.ariaExpanded = FALSE,
                 !.embedHidden = TRUE,
                 !.dataExpanded = FALSE,
                 !.iframes = IF @ # <<>> THEN Tail(@) ELSE @]

\* (mutation of collapseOther: the other card's chip highlights are cleared)
collapseOther_resetsChips(otherCard) ==
    [otherCard EXCEPT !.ariaExpanded = FALSE,
                      !.embedHidden = TRUE,
                      !.dataExpanded = FALSE,
                      !.iframes = IF @ # <<>> THEN Tail(@) ELSE @,
                      !.chips = [i \in 1..Len(@) |-> [@[i] EXCEPT !.highlighted = FALSE]]]

\* (mutation of collapseOther: the other card's iframe is left in place)
collapseOther_keepsIframe(otherCard) ==
    [otherCard EXCEPT !.ariaExpanded = FALSE,
                      !.embedHidden = TRUE,
                      !.dataExpanded = FALSE]

\* toggleVideoCard, expand branch: one other card found expanded
collapseOther(otherCard) ==
    [otherCard EXCEPT !.ariaExpanded = FALSE,
                      !.embedHidden = TRUE,
                      !.dataExpanded = FALSE,
                      !.iframes = IF @ # <<>> THEN Tail(@) ELSE @]

\* (mutation of collapseOthers: the other cards are not visited)
collapseOthers_none(cs, c) == cs

\* toggleVideoCard, expand branch: videoCards.forEach(otherCard => ...)
collapseOthers(cs, c) ==
    [i \in 1..Len(cs) |->
        IF i # c /\ cs[i].ariaExpanded THEN collapseOther(cs[i]) ELSE cs[i]]

\* (mutation of expandSelf: the data-expanded marker is not set)
expandSelf_noMarker(card) ==
    loadYouTubeEmbed([card EXCEPT !.ariaExpanded = TRUE,
                                  !.embedHidden = FALSE])

\* toggleVideoCard, expand branch: the card itself, then the embed
expandSelf(card) ==
    loadYouTubeEmbed([card EXCEPT !.ariaExpanded = TRUE,
                                  !.embedHidden = FALSE,
                                  !.dataExpanded = TRUE])

\* (mutation of toggleVideoCard: collapsing a card cancels its pending scroll)
toggleVideoCard_cancelsScroll(st, c) ==
    IF st.cards[c].ariaExpanded
    THEN [cards |-> [st.cards EXCEPT ![c] = collapseSelf(@)],
          timers |-> SelectSeq(st.timers, LAMBDA t : t # c)]
    ELSE [cards |-> [collapseOthers(st.cards, c) EXCEPT ![c] = expandSelf(@)],
          timers |-> Append(st.timers, c)]

\* toggleVideoCard(card) on the page st = [cards, timers]
toggleVideoCard(st, c) ==
    IF st.cards[c].ariaExpanded
    THEN [st EXCEPT !.cards[c] = collapseSelf(@)]
    ELSE [cards |-> [collapseOthers(st.cards, c) EXCEPT ![c] = expandSelf(@)],
          timers |-> Append(st.timers, c)]

\* ------------------------------------------------------------------ filter

\* (mutation of highlightChips: a chip that does not match keeps its class)
highlightChips_addsOnly(chipList, selectedParticipant) ==
    [i \in 1..Len(chipList) |->
        [chipList[i] EXCEPT !.highlighted =
            (@ \/ (selectedParticipant # EmptyStr
                      /\ trim(chipList[i].text) = selectedParticipant))]]

\* filterVideos: chips.forEach(chip => ...) of a card that stays shown
highlightChips(chipList, selectedParticipant) ==
    [i \in 1..Len(chipList) |->
        [chipList[i] EXCEPT !.highlighted =
            (selectedParticipant # EmptyStr /\ trim(chipList[i].text) = selectedParticipant)]]

\* (mutation of filterCard: a card hidden while expanded is not collapsed)
filterCard_noCollapse(st, c, selectedParticipant) ==
    LET card == st.cards[c]
        participants == participantsOf(card)
    IN  IF selectedParticipant = EmptyStr \/ includes(participants, selectedParticipant)
        THEN [st EXCEPT !.cards[c] =
                 [card EXCEPT !.hidden = FALSE,
                              !.chips = highlightChips(card.chips, selectedParticipant)]]
        ELSE [st EXCEPT !.cards[c].hidden = TRUE]

\* (mutation of filterCard: a matching card is not brought back from hidden)
filterCard_keepsHidden(st, c, selectedParticipant) ==
    LET card == st.cards[c]
        participants == participantsOf(card)
    IN  IF selectedParticipant = EmptyStr \/ includes(participants, selectedParticipant)
        THEN [st EXCEPT !.cards[c] =
                 [card EXCEPT !.chips = highlightChips(card.chips, selectedParticipant)]]
        ELSE LET hid == [st EXCEPT !.cards[c].hidden = TRUE]
             IN  IF card.ariaExpanded THEN toggleVideoCard(hid, c) ELSE hid

\* (mutation of filterCard: the raw pieces are matched, without trim)
filterCard_untrimmed(st, c, selectedParticipant) ==
    LET card == st.cards[c]
        participants == split(card.participants, ",")
    IN  IF selectedParticipant = EmptyStr \/ includes(participants, selectedParticipant)
        THEN [st EXCEPT !.cards[c] =
                 [card EXCEPT !.hidden = FALSE,
                              !.chips = highlightChips(card.chips, selectedParticipant)]]
        ELSE LET hid == [st EXCEPT !.cards[c].hidden = TRUE]
             IN  IF card.ariaExpanded THEN toggleVideoCard(hid, c) ELSE hid

\* (mutation of filterCard: an expanded card is collapsed whether it is
\* hidden or stays shown)
filterCard_collapsesShown(st, c, selectedParticipant) ==
    LET card == st.cards[c]
        participants == participantsOf(card)
    IN  IF selectedParticipant = EmptyStr \/ includes(participants, selectedParticipant)
        THEN LET shown == [st EXCEPT !.cards[c] =
                             [card EXCEPT !.hidden = FALSE,
                                          !.chips = highlightChips(card.chips,
                                                                   selectedParticipant)]]
             IN  IF card.ariaExpanded THEN toggleVideoCard(shown, c) ELSE shown
        ELSE LET hid == [st EXCEPT !.cards[c].hidden = TRUE]
             IN  IF card.ariaExpanded THEN toggleVideoCard(hid, c) ELSE hid

\* filterVideos: the body of videoCards.forEach for card c
filterCard(st, c, selectedParticipant) ==
    LET card == st.cards[c]
        participants == participantsOf(card)
    IN  IF selectedParticipant = EmptyStr \/ includes(participants, selectedParticipant)
        THEN [st EXCEPT !.cards[c] =
                 [card EXCEPT !.hidden = FALSE,
                              !.chips = highlightChips(card.chips, selectedParticipant)]]
        ELSE LET hid == [st EXCEPT !.cards[c].hidden = TRUE]
             IN  IF card.ariaExpanded THEN toggleVideoCard(hid, c) ELSE hid

\* (mutation of filterFrom: every card is counted, shown or not)
RECURSIVE filterFrom_countsAll(_, _, _, _)
filterFrom_countsAll(st, c, selectedParticipant, visibleCount) ==
    IF c > Len(st.cards)
    THEN [cards |-> st.cards,
          timers |-> st.timers,
          emptyHidden |-> ~(visibleCount = 0)]
    ELSE filterFrom_countsAll(filterCard(st, c, selectedParticipant), c + 1,
                              selectedParticipant, visibleCount + 1)

\* filterVideos: videoCards.forEach from card c on, then the placeholder
RECURSIVE filterFrom(_, _, _, _)
filterFrom(st, c, selectedParticipant, visibleCount) ==
    IF c > Len(st.cards)
    THEN [cards |-> st.cards,
          timers |-> st.timers,
          emptyHidden |-> ~(visibleCount = 0)]
    ELSE LET done == filterCard(st, c, selectedParticipant)
         IN  filterFrom(done, c + 1, selectedParticipant,
                        IF done.cards[c].hidden THEN visibleCount ELSE visibleCount + 1)

\* filterVideos(selectedParticipant): every card in turn, then the placeholder
filterVideos(st, selectedParticipant) == filterFrom(st, 1, selectedParticipant, 0)

\* (mutation of escapeFrom: every card is toggled, expanded or not)
RECURSIVE escapeFrom_togglesAll(_, _)
escapeFrom_togglesAll(st, c) ==
    IF c > Len(st.cards) THEN st
    ELSE escapeFrom_togglesAll(toggleVideoCard(st, c), c + 1)

\* document keydown, Escape: videoCards.forEach from card c on
RECURSIVE escapeFrom(_, _)
escapeFrom(st, c) ==
    IF c > Len(st.cards) THEN st
    ELSE escapeFrom(IF st.cards[c].ariaExpanded THEN toggleVideoCard(st, c) ELSE st, c + 1)

\* document keydown, Escape: every card found expanded is toggled
escapeAll(st) == escapeFrom(st, 1)

\* ------------------------------------------------------------------ events

Page == [cards |-> cards, timers |-> timers]
CardIds == 1..Len(cards)

ThumbKeys == {"Enter", " ", "Tab"}
DocKeys == {"Escape", "Enter"}

\* values the filter control can report in a change event
Selections == {EmptyStr, <<"a">>, <<"A">>, <<"b">>}

\* a trigger can be activated while its card is displayed (a card with the
\* hidden attribute takes neither pointer nor keyboard focus); the number of
\* pending scroll timers is capped at MaxTimers
CanActivate(c) ==
    /\ pc = "ready"
    /\ ~cards[c].hidden
    /\ (cards[c].ariaExpanded \/ Len(timers) < MaxTimers)

\* thumbnailBtn click listener
ThumbnailClick(c) ==
    /\ CanActivate(c)
    /\ \E r \in {toggleVideoCard(Page, c)} :
          cards' = r.cards /\ timers' = r.timers
    /\ lastEvent' = Event("toggle", cards, cards')
    /\ UNCHANGED <<pc, options, filterValue, emptyHidden>>

\* (mutation of ThumbnailKeydown: the default activation is not suppressed,
\* so the trigger's click listener runs after the keydown listener)
ThumbnailKeydown_clicksToo(c, key) ==
    /\ CanActivate(c)
    /\ LET r == IF key = "Enter" \/ key = " "
                THEN toggleVideoCard(toggleVideoCard(Page, c), c)
                ELSE Page
       IN  cards' = r.cards /\ timers' = r.timers
    /\ lastEvent' = Event(IF key = "Enter" \/ key = " " THEN "toggle" ELSE "other",
                          cards, cards')
    /\ UNCHANGED <<pc, options, filterValue, emptyHidden>>

\* thumbnailBtn keydown listener
ThumbnailKeydown(c, key) ==
    /\ CanActivate(c)
    /\ \E r \in {IF key = "Enter" \/ key = " " THEN toggleVideoCard(Page, c) ELSE Page} :
          cards' = r.cards /\ timers' = r.timers
    /\ lastEvent' = Event(IF key = "Enter" \/ key = " " THEN "toggle" ELSE "other",
                          cards, cards')
    /\ UNCHANGED <<pc, options, filterValue, emptyHidden>>

\* participantFilter change listener
FilterChange(value) ==
    /\ pc = "ready"
    /\ filterValue' = value
    /\ \E r \in {filterVideos(Page, value)} :
          cards' = r.cards /\ timers' = r.timers /\ emptyHidden' = r.emptyHidden
    /\ lastEvent' = Event("change", cards, cards')
    /\ UNCHANGED <<pc, options>>

\* resetFilter(), the reset button's click listener
resetFilter ==
    /\ pc = "ready"
    /\ filterValue' = EmptyStr
    /\ \E r \in {filterVideos(Page, EmptyStr)} :
          cards' = r.cards /\ timers' = r.timers /\ emptyHidden' = r.emptyHidden
    /\ lastEvent' = Event("reset", cards, cards')
    /\ UNCHANGED <<pc, options>>

\* document keydown listener
DocumentKeydown(key) ==
    /\ pc = "ready"
    /\ \E r \in {IF key = "Escape" THEN escapeAll(Page) ELSE Page} :
          cards' = r.cards /\ timers' = r.timers
    /\ lastEvent' = Event(IF key = "Escape" THEN "Escape" ELSE "other", cards, cards')
    /\ UNCHANGED <<pc, options, filterValue, emptyHidden>>

\* (mutation of ExpandBtnClick: the click also reaches the card's trigger)
ExpandBtnClick_bubbles(c) ==
    /\ pc = "ready"
    /\ ~cards[c].hidden
    /\ cards[c].expandBtn.present
    /\ cards[c].ariaExpanded \/ Len(timers) < MaxTimers
    /\ LET r == toggleVideoCard([cards |-> [cards EXCEPT ![c] = toggleChips(@)],
                                 timers |-> timers], c)
       IN  cards' = r.cards /\ timers' = r.timers
    /\ lastEvent' = NoEvent
    /\ UNCHANGED <<pc, options, filterValue, emptyHidden>>

\* expandBtn click listener (propagation stopped): toggleChips only
ExpandBtnClick(c) ==
    /\ pc = "ready"
    /\ ~cards[c].hidden
    /\ cards[c].expandBtn.present
    /\ cards' = [cards EXCEPT ![c] = toggleChips(@)]
    /\ lastEvent' = NoEvent
    /\ UNCHANGED <<pc, options, filterValue, emptyHidden, timers>>

\* iframe load listener of the k-th iframe of card c
IframeLoad(c, k) ==
    /\ pc = "ready"
    /\ k \in 1..Len(cards[c].iframes)
    /\ ~cards[c].iframes[k].loaded
    /\ cards' = [cards EXCEPT ![c].loading = FALSE, ![c].iframes[k].loaded = TRUE]
    /\ lastEvent' = NoEvent
    /\ UNCHANGED <<pc, options, filterValue, emptyHidden, timers>>

\* the oldest setTimeout callback: card.scrollIntoView
ScrollTimer ==
    /\ timers # <<>>
    /\ timers' = Tail(timers)
    /\ lastEvent' = [NoEvent EXCEPT !.op = "timeout", !.card = Head(timers)]
    /\ UNCHANGED <<pc, cards, options, filterValue, emptyHidden>>

\* ------------------------------------------------------ page specification

Init == InitPage({MarkupCard(attr) : attr \in CardAttrs}, MaxCards)

Next ==
    \/ init
    \/ \E c \in CardIds : ThumbnailClick(c)
    \/ \E c \in CardIds, key \in ThumbKeys : ThumbnailKeydown(c, key)
    \/ \E value \in Selections : FilterChange(value)
    \/ resetFilter
    \/ \E key \in DocKeys : DocumentKeydown(key)
    \/ \E c \in CardIds : ExpandBtnClick(c)
    \/ \E c \in CardIds : \E k \in 1..Len(cards[c].iframes) : IframeLoad(c, k)
    \/ ScrollTimer

Spec == Init /\ [][Next]_vars

\* ------------------------------------ page with fair scroll timers (SpecFair)

\* the cards of this page all carry the list "A,A, b ,A,A": a selection
\* hides them all or none
InitFair ==
    InitPage({MarkupCard(<<"A", ",", "A", ",", " ", "b", " ", ",", "A", ",", "A">>)},
             MaxCards)

\* setTimeout callbacks are run by the event loop: a pending timer is not
\* postponed for ever
SpecFair == InitFair /\ [][Next]_vars /\ WF_vars(ScrollTimer)

\* ------------------------------------------- chip rows specification (SpecChips)

\* what the markup may already hold in a card's chips container: nothing, or
\* a chip left there by the page's author
MarkupChipRows ==
    { <<>>,
      <<[text |-> <<"b">>, hidden |-> FALSE, visible |-> FALSE, highlighted |-> FALSE]>> }

InitChips ==
    InitPage({MarkupCardWith(attr, VideoId, row) :
                  attr \in ChipAttrs, row \in MarkupChipRows}, MaxCards)

NextChips ==
    \/ init
    \/ \E c \in CardIds : ExpandBtnClick(c)

SpecChips == InitChips /\ [][NextChips]_vars

\* ------------------------- page with a card lacking data-video-id (SpecVideoId)

\* the cards of such a page: "a" without the attribute, "A,A, b ,A,A" with it
VideoIdCards ==
    { MarkupCardWith(<<"a">>, Undefined, <<>>),
      MarkupCardWith(<<"A", ",", "A", ",", " ", "b", " ", ",", "A", ",", "A">>,
                     VideoId, <<>>) }

InitVideoId == InitPage(VideoIdCards, MaxCards)

SpecVideoId == InitVideoId /\ [][Next]_vars

\* ------------------------------------------------------------- properties

\* any of the four expansion facts of a card
Expanded(card) ==
    \/ card.ariaExpanded
    \/ ~card.embedHidden
    \/ card.dataExpanded
    \/ card.iframes # <<>>

\* a trigger activation: pointer click, or Enter / Space on the trigger
Activates(c) ==
    \/ ThumbnailClick(c)
    \/ \E key \in {"Enter", " "} : ThumbnailKeydown(c, key)

\* the trimmed names of a card's comma-separated participant list
NamesOf(card) ==
    LET pieces == split(card.participants, ",")
    IN  {trim(pieces[i]) : i \in 1..Len(pieces)}

\* C1: starting from all cards collapsed, after any sequence of trigger
\* activations, Escape presses, filter changes and resets, at most one card
\* is in the expanded state (by any of its expansion facts).
C1_AtMostOneExpanded ==
    Cardinality({c \in CardIds : Expanded(cards[c])}) <= 1

\* C1 witness: one card is expanded while another, expanded earlier (its
\* loading marker is still set), is collapsed, under an active filter.
C1_Witness ==
    \E a, b \in CardIds :
        /\ a # b
        /\ cards[b].ariaExpanded
        /\ ~Expanded(cards[a]) /\ cards[a].loading
        /\ filterValue # EmptyStr

\* C2: when an activation expands card b while another card a is expanded,
\* a ends exactly as an explicit collapse of a leaves it (indicator false,
\* embed container hidden, marker removed, player element removed) and b is
\* expanded with its player element present.
C2_DisplacedAsExplicitCollapse ==
    [][\A a, b \in CardIds :
          (a # b /\ cards[a].ariaExpanded /\ ~cards[b].ariaExpanded /\ Activates(b))
          => /\ cards'[a] = toggleVideoCard(Page, a).cards[a]
             /\ ~cards'[a].ariaExpanded
             /\ cards'[a].embedHidden
             /\ ~cards'[a].dataExpanded
             /\ cards'[a].iframes = <<>>
             /\ cards'[b].ariaExpanded
             /\ ~cards'[b].embedHidden
             /\ cards'[b].dataExpanded
             /\ Len(cards'[b].iframes) = 1]_vars

\* C2 witness: the last listener was an activation that collapsed card a and
\* left another card b expanded.
C2_Witness ==
    /\ lastEvent.op = "toggle"
    /\ \E a \in lastEvent.collapsed : \E b \in CardIds :
          a # b /\ cards[b].ariaExpanded /\ cards[b].iframes # <<>>

\* C3: a card is hidden if and only if the filter selection is non-empty and
\* the card's trimmed comma-separated participant list does not contain the
\* selection as an exact string; this holds after every filterVideos call and
\* in every later state.
C3_HiddenIffExcluded ==
    \A c \in CardIds :
        cards[c].hidden <=>
            (filterValue # EmptyStr /\ filterValue \notin NamesOf(cards[c]))

\* C3 witness: under an active filter one card is hidden and another is
\* shown and has since been expanded by an activation.
C3_Witness ==
    /\ filterValue # EmptyStr
    /\ lastEvent.op = "toggle"
    /\ \E a, b \in CardIds :
          cards[a].hidden /\ ~cards[b].hidden /\ cards[b].ariaExpanded

\* C4 as claimed: for every chip of every card, hidden by the filter or not,
\* the chip is highlighted if and only if the filter selection is non-empty
\* and the chip's text equals the selection.
C4_HighlightOnEveryCard ==
    \A c \in CardIds : \A i \in 1..Len(cards[c].chips) :
        cards[c].chips[i].highlighted <=>
            (filterValue # EmptyStr /\ cards[c].chips[i].text = filterValue)

\* C4 amended: for every chip of every card the filter leaves shown, the chip
\* is highlighted if and only if the filter selection is non-empty and the
\* chip's text equals the selection (a hidden card keeps the highlights of
\* the last selection under which it was shown).
C4_HighlightOnShownCards ==
    \A c \in CardIds :
        ~cards[c].hidden =>
            \A i \in 1..Len(cards[c].chips) :
                cards[c].chips[i].highlighted <=>
                    (filterValue # EmptyStr /\ cards[c].chips[i].text = filterValue)

\* C4 witness: a shown card has a highlighted chip and a chip that is not,
\* while a hidden card still carries a highlight of an earlier selection.
C4_Witness ==
    \E c, d \in CardIds :
        /\ ~cards[c].hidden
        /\ \E i, j \in 1..Len(cards[c].chips) :
              cards[c].chips[i].highlighted /\ ~cards[c].chips[j].highlighted
        /\ cards[d].hidden
        /\ \E i \in 1..Len(cards[d].chips) : cards[d].chips[i].highlighted

\* C5: no card is both hidden by the filter and expanded or holding a player
\* element: an expanded card that filterVideos hides is collapsed by that
\* same call.
C5_HiddenNeverExpanded ==
    \A c \in CardIds : cards[c].hidden => ~Expanded(cards[c])

\* C5 witness: the last listener was a filter change that hid a card and
\* took that card from expanded to collapsed.
C5_Witness ==
    /\ lastEvent.op = "change"
    /\ \E c \in lastEvent.collapsed : cards[c].hidden /\ ~Expanded(cards[c])

\* C6: after filterVideos('') -- by a change to the empty selection or by
\* resetFilter -- every card is shown and no chip of any card is highlighted;
\* after resetFilter the filter control's value is empty.
C6_EmptyFilterRestores ==
    (lastEvent.op = "reset" \/ (lastEvent.op = "change" /\ filterValue = EmptyStr))
    => /\ \A c \in CardIds :
             /\ ~cards[c].hidden
             /\ \A i \in 1..Len(cards[c].chips) : ~cards[c].chips[i].highlighted
       /\ (lastEvent.op = "reset" => filterValue = EmptyStr)

\* C6 witness: resetFilter has just brought a hidden card back, on a page
\* with several cards.
C6_Witness ==
    /\ lastEvent.op = "reset"
    /\ lastEvent.shown # {}
    /\ Len(cards) >= 2

\* C7: after every filterVideos call the "no results" placeholder is shown if
\* and only if zero cards are visible.
C7_PlaceholderIffNoneVisible ==
    lastEvent.op \in {"change", "reset"}
    => (~emptyHidden <=> \A c \in CardIds : cards[c].hidden)

\* C7 witness: a filter change on a page with cards has left none of them
\* visible and the placeholder shown.
C7_Witness ==
    /\ lastEvent.op = "change"
    /\ Len(cards) >= 1
    /\ \A c \in CardIds : cards[c].hidden
    /\ ~emptyHidden

\* the state an explicit collapse produces
CollapsedCard(card) ==
    [card EXCEPT !.ariaExpanded = FALSE,
                 !.embedHidden = TRUE,
                 !.dataExpanded = FALSE,
                 !.iframes = <<>>]

\* C8: Escape with no card expanded changes nothing; Escape with a card
\* expanded collapses exactly that card (its player element removed) and
\* leaves every other card, every card's visibility and chips, the filter
\* selection, the options, the placeholder and the timers unchanged.
C8_EscapeCollapsesOnlyExpanded ==
    [][DocumentKeydown("Escape")
       => /\ cards' = [c \in CardIds |->
                          IF cards[c].ariaExpanded THEN CollapsedCard(cards[c])
                          ELSE cards[c]]
          /\ UNCHANGED <<pc, options, filterValue, emptyHidden, timers>>]_vars

\* C8 witness: Escape has just collapsed a card under an active filter that
\* hides another card.
C8_Witness ==
    /\ lastEvent.op = "Escape"
    /\ lastEvent.collapsed # {}
    /\ filterValue # EmptyStr
    /\ \E c \in CardIds : cards[c].hidden

\* the options populateFilterDropdown appended, after the control's own
Directory == SubSeq(options, Len(StaticOptions) + 1, Len(options))

\* every trimmed name of every card
AllNames == UNION {NamesOf(cards[c]) : c \in CardIds}

\* C9: the directory's elements are exactly the whitespace-trimmed names of
\* the cards' comma-separated participant lists, each distinct name exactly
\* once, in ascending order under the collation comparator, and
\* populateFilterDropdown appends them in that order after the options the
\* control already had.
C9_DirectoryIsSortedUnion ==
    pc = "ready"
    => /\ SubSeq(options, 1, Len(StaticOptions)) = StaticOptions
       /\ {Directory[i] : i \in 1..Len(Directory)} = AllNames
       /\ \A i, j \in 1..Len(Directory) : i # j => Directory[i] # Directory[j]
       /\ \A i, j \in 1..Len(Directory) :
             i < j => localeCompare(Directory[i], Directory[j]) <= 0

\* C9 witness: init() has run on a page where a name occurs in two pieces, a
\* piece carried whitespace that trim removed, and the directory has at
\* least three entries that the sort had to reorder.
C9_Witness ==
    /\ pc = "ready"
    /\ Len(Directory) >= 3
    /\ \E c \in CardIds :
          LET pieces == split(cards[c].participants, ",")
          IN  \E i \in 1..Len(pieces) : trim(pieces[i]) # pieces[i]
    /\ \E c, d \in CardIds : c # d /\ NamesOf(cards[c]) \cap NamesOf(cards[d]) # {}
    /\ \E i \in 1..Len(Directory) :
          Directory[i] = <<"b">> /\ i > 1 /\ <<"b">> \in NamesOf(cards[1])
                                 /\ split(cards[1].participants, ",")[1] = <<"b">>

\* C10 as claimed: names that differ only in letter case are collapsed into
\* a single directory entry.
C10_CaseVariantsCollapsed ==
    pc = "ready"
    => \A i, j \in 1..Len(Directory) :
          i # j => localeCompare(Directory[i], Directory[j]) # 0

\* C10 amended: names that differ only in letter case stay separate entries
\* (the set holds exact strings; the collation only orders them): two such
\* names of the cards are both in the directory, and the cards "b, A" and
\* "a" yield exactly three entries, A, a and b.
C10_CaseVariantsKept ==
    pc = "ready"
    => /\ \A x, y \in AllNames :
             (x # y /\ localeCompare(x, y) = 0)
             => \E i, j \in 1..Len(Directory) :
                   i # j /\ Directory[i] = x /\ Directory[j] = y
       /\ ([c \in CardIds |-> cards[c].participants] = << <<"b", ",", " ", "A">>, <<"a">> >>
             => /\ Len(Directory) = 3
                /\ {Directory[i] : i \in 1..3} = {<<"A">>, <<"a">>, <<"b">>})

\* C10 witness: init() has run on the page of the two cards "b, A" and "a".
C10_Witness ==
    /\ pc = "ready"
    /\ [c \in CardIds |-> cards[c].participants] = << <<"b", ",", " ", "A">>, <<"a">> >>
    /\ Len(Directory) = 3

\* the number of participants a card lists: one more than the commas of its
\* data-participants attribute
NumListed(card) ==
    Cardinality({i \in 1..Len(card.participants) : card.participants[i] = ","}) + 1

\* C11: right after generateChips has run on a card listing n participants,
\* the card has exactly n chips, in the listed order and with the trimmed
\* names as text; the first min(n, 4) are visible and the remaining
\* max(n - 4, 0) are marked hidden; the expand control exists if and only if
\* n > 4, is then non-expanded and its label carries the count n - 4; no chip
\* the container held before the call is left.
C11_ChipsAsListed ==
    lastEvent.op = "init"
    => \A c \in CardIds :
          LET n == NumListed(cards[c])
              listed == split(cards[c].participants, ",")
          IN  /\ Len(cards[c].chips) = n
              /\ \A i \in 1..n :
                    /\ cards[c].chips[i].text = trim(listed[i])
                    /\ cards[c].chips[i].hidden <=> (i > 4)
                    /\ ~cards[c].chips[i].visible
              /\ Cardinality({i \in 1..n : ~cards[c].chips[i].hidden})
                    = (IF n < 4 THEN n ELSE 4)
              /\ Cardinality({i \in 1..n : cards[c].chips[i].hidden})
                    = (IF n > 4 THEN n - 4 ELSE 0)
              /\ cards[c].expandBtn.present <=> (n > 4)
              /\ n > 4 => /\ ~cards[c].expandBtn.ariaExpanded
                          /\ cards[c].expandBtn.label = LabelMore(n - 4)

\* C11 witness: init() has just generated the chips of a page that has a card
\* with six participants (two chips hidden, expand control present) and a
\* card with exactly four (no chip hidden, no expand control).
C11_Witness ==
    /\ lastEvent.op = "init"
    /\ \E c, d \in CardIds :
          /\ NumListed(cards[c]) = 6
          /\ cards[c].expandBtn.present
          /\ cards[c].chips[6].hidden
          /\ NumListed(cards[d]) = 4
          /\ ~cards[d].expandBtn.present

\* which chips of a card are hidden, and which carry the "visible" marker
ChipVisibility(card) ==
    [i \in 1..Len(card.chips) |->
        [hidden |-> card.chips[i].hidden, visible |-> card.chips[i].visible]]

\* C12: on a card listing n > 4 participants, activating the expand control
\* while it is non-expanded reveals all n chips and switches the control to
\* its expanded "show less" state; activating it while expanded hides exactly
\* the chips after the fourth (n - 4 of them) and restores the non-expanded
\* control with the count n - 4, which is the chip visibility and control
\* state generateChips produces; a second activation always undoes the first.
C12_ToggleTwiceRestores ==
    [][\A c \in CardIds :
          ExpandBtnClick(c)
          => LET n == NumListed(cards[c])
                 after == cards'[c]
             IN  /\ n > 4
                 /\ Len(after.chips) = n
                 /\ IF ~cards[c].expandBtn.ariaExpanded
                    THEN /\ \A i \in 1..n : ~after.chips[i].hidden
                         /\ after.expandBtn.ariaExpanded
                         /\ after.expandBtn.label = LabelLess
                    ELSE /\ \A i \in 1..n : after.chips[i].hidden <=> (i > 4)
                         /\ Cardinality({i \in 1..n : after.chips[i].hidden}) = n - 4
                         /\ ~after.expandBtn.ariaExpanded
                         /\ after.expandBtn.label = LabelMore(n - 4)
                         /\ ChipVisibility(after) = ChipVisibility(generateChips(cards[c]))
                         /\ after.expandBtn = generateChips(cards[c]).expandBtn
                 /\ ChipVisibility(toggleChips(after)) = ChipVisibility(cards[c])
                 /\ toggleChips(after).expandBtn = cards[c].expandBtn]_vars

\* C12 witness: the expand control of a card with six participants has been
\* activated: it is in the "show less" state and all six chips are revealed.
C12_Witness ==
    \E c \in CardIds :
        /\ NumListed(cards[c]) = 6
        /\ cards[c].expandBtn.ariaExpanded
        /\ cards[c].expandBtn.label = LabelLess
        /\ \A i \in 1..6 : ~cards[c].chips[i].hidden

\* the expansion state, player element, visibility and chip highlights of a card
CardOutsideChipRow(card) ==
    [ariaExpanded |-> card.ariaExpanded,
     embedHidden |-> card.embedHidden,
     dataExpanded |-> card.dataExpanded,
     iframes |-> card.iframes,
     loading |-> card.loading,
     hidden |-> card.hidden,
     highlights |-> [i \in 1..Len(card.chips) |->
                        [text |-> card.chips[i].text,
                         highlighted |-> card.chips[i].highlighted]]]

\* C13: activating a chip expand control never runs the card's
\* expand/collapse: it leaves every card's expansion state, player element,
\* visibility and chip highlights, every other card, the filter selection,
\* the options, the placeholder and the pending scroll timers unchanged.
C13_ChipToggleLeavesCards ==
    [][\A c \in CardIds :
          ExpandBtnClick(c)
          => /\ \A d \in CardIds :
                   /\ CardOutsideChipRow(cards'[d]) = CardOutsideChipRow(cards[d])
                   /\ d # c => cards'[d] = cards[d]
             /\ cards'[c] # cards[c]
             /\ UNCHANGED <<pc, options, filterValue, emptyHidden, timers>>]_vars

\* C13 witness: the chip row of a card is expanded while that card is
\* expanded with its player element, one of its chips is highlighted by the
\* active filter, and another card is hidden.
C13_Witness ==
    /\ lastEvent.op = "other"
    /\ filterValue # EmptyStr
    /\ \E c, d \in CardIds :
          /\ cards[c].expandBtn.ariaExpanded
          /\ cards[c].ariaExpanded /\ Len(cards[c].iframes) = 1
          /\ \E i \in 1..Len(cards[c].chips) : cards[c].chips[i].highlighted
          /\ cards[d].hidden

\* C14: a card's player container is marked "loading" by the step that
\* expands the card and by no other step, and the marker is cleared exactly
\* by the load event of the card's embed: no collapse (by the trigger, by
\* Escape, by another card's expansion or by the filter) and no other
\* operation clears it, so without a load event it stays set in every later
\* state, also once the card is collapsed and its player element removed.
C14_LoadingClearedOnlyByLoad ==
    [][\A c \in CardIds :
          /\ (~cards[c].ariaExpanded /\ cards'[c].ariaExpanded) => cards'[c].loading
          /\ (~cards[c].loading /\ cards'[c].loading)
                => (~cards[c].ariaExpanded /\ cards'[c].ariaExpanded)
          /\ (cards[c].loading /\ ~cards'[c].loading)
                => \E k \in 1..Len(cards[c].iframes) : IframeLoad(c, k)
          /\ \A k \in 1..Len(cards[c].iframes) :
                IframeLoad(c, k) => ~cards'[c].loading]_vars

\* C14 witness: a card collapsed and hidden by the filter, its player element
\* removed, still carries the loading marker, while the marker of another,
\* expanded card has been cleared by its embed's load event.
C14_Witness ==
    \E c, d \in CardIds :
        /\ cards[c].loading
        /\ cards[c].iframes = <<>>
        /\ ~cards[c].ariaExpanded
        /\ cards[c].hidden
        /\ cards[d].ariaExpanded
        /\ ~cards[d].loading
        /\ cards[d].iframes[1].loaded

\* card c goes from collapsed to expanded in the step
Expands(c) == ~cards[c].ariaExpanded /\ cards'[c].ariaExpanded

\* a scroll of card c is scheduled and has not fired
ScrollPending(c) == \E i \in 1..Len(timers) : timers[i] = c

ExpandsWithoutVideoId(c) ==
    /\ cards[c].videoId = Undefined
    /\ ~cards[c].ariaExpanded
    /\ Activates(c)

\* C16 as claimed: expanding a card whose video-identifier attribute is
\* absent fails instead of completing the expansion: no player element is
\* created.
C16_AbsentVideoIdFaults ==
    [][\A c \in CardIds :
          ExpandsWithoutVideoId(c) => cards'[c].iframes = <<>>]_vars

\* C16 amended: expanding a card whose video-identifier attribute is absent
\* raises nothing and completes like any expansion: the four expansion facts
\* are set, the loading marker is set, the scroll is scheduled and exactly
\* one player element is created, whose address carries the text
\* "undefined" in the place of the identifier.
C16_AbsentVideoIdEmbedsUndefined ==
    [][\A c \in CardIds :
          ExpandsWithoutVideoId(c)
          => /\ cards'[c].ariaExpanded
             /\ ~cards'[c].embedHidden
             /\ cards'[c].dataExpanded
             /\ cards'[c].loading
             /\ Len(cards'[c].iframes) = 1
             /\ cards'[c].iframes[1].src =
                    <<"https://www.youtube-nocookie.com/embed/",
                      "u", "n", "d", "e", "f", "i", "n", "e", "d",
                      "?rel=0&modestbranding=1&autoplay=1&enablejsapi=0">>
             /\ timers' = Append(timers, c)]_vars

\* C16 witness: an activation has just expanded a card without video
\* identifier, which now holds one player element.
C16_Witness ==
    /\ lastEvent.op = "toggle"
    /\ \E c \in CardIds :
          /\ cards[c].videoId = Undefined
          /\ cards[c].ariaExpanded
          /\ Len(cards[c].iframes) = 1
          /\ ~cards[c].iframes[1].loaded

\* C17: one Enter or Space key activation of a card's trigger performs
\* exactly one expand/collapse transition of that card, and the state it
\* produces is the state one pointer click on the trigger produces from the
\* same state; any other key on the trigger changes nothing.
C17_KeyActivationAsClick ==
    [][\A c \in CardIds :
          /\ \A key \in {"Enter", " "} :
                (lastEvent'.op = "toggle" /\ ThumbnailKeydown(c, key))
                => /\ ThumbnailClick(c)
                   /\ cards'[c].ariaExpanded = ~cards[c].ariaExpanded
                   /\ cards'[c] = toggleVideoCard(Page, c).cards[c]
          /\ \A key \in ThumbKeys \ {"Enter", " "} :
                (lastEvent'.op = "other" /\ ThumbnailKeydown(c, key))
                => UNCHANGED <<pc, cards, options, filterValue, emptyHidden, timers>>]_vars

\* C17 witness: a trigger activation (by key as by click) has just expanded
\* a card and scheduled its scroll, displacing no other card, on a page where
\* another card is hidden by the filter.
C17_Witness ==
    /\ lastEvent.op = "toggle"
    /\ lastEvent.collapsed = {}
    /\ \E c, d \in CardIds :
          /\ cards[c].ariaExpanded
          /\ timers # <<>> /\ timers[Len(timers)] = c
          /\ cards[d].hidden

\* C18: in every reachable state the four expansion facts of each card
\* agree: the trigger's indicator is true iff the embed container is
\* revealed iff the card carries the expansion marker iff the player
\* container holds exactly one player element; a collapsed card holds none
\* and no card ever holds more than one.
C18_ExpansionFactsAgree ==
    \A c \in CardIds :
        /\ cards[c].ariaExpanded <=> ~cards[c].embedHidden
        /\ cards[c].ariaExpanded <=> cards[c].dataExpanded
        /\ cards[c].ariaExpanded <=> (Len(cards[c].iframes) = 1)
        /\ ~cards[c].ariaExpanded => cards[c].iframes = <<>>
        /\ Len(cards[c].iframes) <= 1

\* C18 witness: a card is expanded with its single player element loaded,
\* beside a card that was expanded earlier (its loading marker is still set)
\* and is collapsed with no player element.
C18_Witness ==
    \E c, d \in CardIds :
        /\ cards[c].ariaExpanded /\ ~cards[c].embedHidden /\ cards[c].dataExpanded
        /\ Len(cards[c].iframes) = 1 /\ cards[c].iframes[1].loaded
        /\ ~cards[d].ariaExpanded /\ cards[d].embedHidden /\ ~cards[d].dataExpanded
        /\ cards[d].iframes = <<>> /\ cards[d].loading

\* the expansion facts of a card with its player element and loading marker
ExpansionOf(card) ==
    [ariaExpanded |-> card.ariaExpanded,
     embedHidden |-> card.embedHidden,
     dataExpanded |-> card.dataExpanded,
     iframes |-> card.iframes,
     loading |-> card.loading]

\* a step of filterVideos: a filter change or resetFilter (the only
\* listeners that record "change" or "reset")
FilterStep ==
    /\ lastEvent'.op \in {"change", "reset"}
    /\ (\E value \in Selections : FilterChange(value)) \/ resetFilter

\* C19: filterVideos changes the expansion state only of cards it hides: a
\* card it leaves visible keeps its expansion facts and, if expanded, the
\* same player element (neither reloaded nor collapsed); no collapsed card
\* becomes expanded; and no scroll is scheduled.
C19_FilterKeepsShownExpansion ==
    [][FilterStep
       => /\ \A c \in CardIds :
                /\ ~cards'[c].hidden => ExpansionOf(cards'[c]) = ExpansionOf(cards[c])
                /\ ~cards[c].ariaExpanded => ExpansionOf(cards'[c]) = ExpansionOf(cards[c])
                /\ ExpansionOf(cards'[c]) # ExpansionOf(cards[c])
                      => cards'[c].hidden /\ cards[c].ariaExpanded /\ ~cards'[c].ariaExpanded
          /\ timers' = timers]_vars

\* C19 witness: a filter change to a participant has hidden one card and
\* collapsed none, and a card it left visible is still expanded, holding the
\* player element that had loaded before.
C19_Witness ==
    /\ lastEvent.op = "change"
    /\ filterValue # EmptyStr
    /\ lastEvent.collapsed = {}
    /\ \E c, d \in CardIds :
          /\ ~cards[c].hidden
          /\ cards[c].ariaExpanded
          /\ Len(cards[c].iframes) = 1 /\ cards[c].iframes[1].loaded
          /\ cards[d].hidden

\* C20: on a page with at least one card, every option populateFilterDropdown
\* added is a listed name of at least one card, so after a filter change to
\* any option of the control (a populated one or the empty selection) and
\* after resetFilter at least one card is visible and the "no results"
\* placeholder is hidden.
C20_PopulatedOptionShowsACard ==
    (pc = "ready" /\ Len(cards) >= 1)
    => /\ \A i \in 1..Len(Directory) :
             \E c \in CardIds : Directory[i] \in NamesOf(cards[c])
       /\ (/\ lastEvent.op \in {"change", "reset"}
           /\ \E i \in 1..Len(options) : options[i] = filterValue)
          => /\ \E c \in CardIds : ~cards[c].hidden
             /\ emptyHidden

\* C20 witness: a filter change to a populated, non-empty option has hidden
\* a card and left another visible, with the placeholder hidden.
C20_Witness ==
    /\ lastEvent.op = "change"
    /\ filterValue # EmptyStr
    /\ \E i \in 1..Len(Directory) : Directory[i] = filterValue
    /\ \E c, d \in CardIds : cards[c].hidden /\ ~cards[d].hidden
    /\ emptyHidden

\* the visibility of a card and the whole of its chip row: every chip's text,
\* highlight, hidden and "visible" markers, and the expand control
CardOutsideExpansion(card) ==
    [hidden |-> card.hidden,
     chips |-> card.chips,
     expandBtn |-> card.expandBtn]

\* C21: activating a card's trigger, whether it expands or collapses the
\* card and whether or not it collapses another card by mutual exclusion,
\* leaves the filter selection, the options, the "no results" placeholder,
\* and every card's visibility, chip highlights and chip hidden/overflow
\* state (expand control included) unchanged.
C21_ActivationLeavesFilterAndChips ==
    [][\A c \in CardIds :
          (lastEvent'.op = "toggle" /\ Activates(c))
          => /\ UNCHANGED <<pc, options, filterValue, emptyHidden>>
             /\ \A d \in CardIds :
                   CardOutsideExpansion(cards'[d]) = CardOutsideExpansion(cards[d])
             /\ cards'[c].ariaExpanded = ~cards[c].ariaExpanded]_vars

\* C21 witness: under an active filter an activation has just expanded a
\* card and displaced another, and the displaced card still has its chip
\* highlighted and its chip row unfolded ("show less").
C21_Witness ==
    /\ lastEvent.op = "toggle"
    /\ filterValue # EmptyStr
    /\ \E a \in lastEvent.collapsed : \E b \in CardIds :
          /\ a # b
          /\ cards[b].ariaExpanded
          /\ ~cards[a].hidden
          /\ cards[a].expandBtn.ariaExpanded
          /\ \E i \in 1..Len(cards[a].chips) : cards[a].chips[i].highlighted

====
